---- MODULE Spec2Model ----
(***************************************************************************)
(* Node identity and registration protocol of Intelli-Core (src/main.rs). *)
(*                                                                         *)
(* Strings are sequences of characters, so that trimming, prefix tests,   *)
(* splitting on the quote character and the byte arithmetic of the        *)
(* indentation are computed as the code computes them.  An ASCII          *)
(* character is a one-character string; a character without a TLA+        *)
(* escape is an element named by its code point, and len_utf8 gives the   *)
(* number of bytes each takes in a Rust str.                              *)
(***************************************************************************)
EXTENDS Integers, Sequences, FiniteSets, TLC

VARIABLES
    \* --- the parsing harness (SpecParse) ---
    file,          \* content of the config artifact
    file_before,   \* its content before patch_uuid_to_cargo ran
    patched_uuid,  \* the uuid handed to patch_uuid_to_cargo
    loaded,        \* the PackageInfo read_package_info returned
    step,          \* "init", "loaded", "patched", "reloaded"
    \* --- the classifier harness (SpecClassify) ---
    given_name,    \* the package name handed to determine_node_type
    returned_type, \* the NodeType it returned ("none": not called yet)
    \* --- the nodes and the shared store (Spec) ---
    cfg,           \* cfg[p]: content of node p's config artifact (/venv/Cargo.toml)
    system,        \* rows of table system, in rowid order
    logs,          \* rows of table logs, in rowid order
    pc,            \* pc[p]: where process p stands in main
    package_info,  \* package_info[p]: the PackageInfo of main
    server_id,     \* server_id[p]: the id manage_system_node returned (0: none yet)
    main_state,    \* main_state[p]: the snapshot manage_system_node has built for its
                   \* INSERT (None outside the None arm)
    now,           \* chrono::Utc::now(), a logical clock
    gen,           \* number of uuids Uuid::new_v4 has produced so far
    \* --- history, read by the properties only ---
    cfg0,          \* cfg0[p]: the artifact before the first boot
    boots,         \* boots[p]: number of boots of node p started so far
    trace,         \* trace[p]: the steps of p's current boot, in order
    fail,          \* fail[p]: the step at which p's current boot aborted ("none")
    loaded_uuid,   \* loaded_uuid[p]: the uuid read_package_info returned in this boot
    wfail,         \* wfail[p]: number of failed writes of p's artifact
    last_uuid,     \* last_uuid[p]: the uuid the previous boot of p ran with
    last_wfail,    \* last_wfail[p]: the previous boot of p failed to write the artifact
    obtained,      \* obtained[p]: the <<uuid, id>> pairs register returned to p
    ok_uuids,      \* uuids for which some register call returned Ok
    last_call      \* the last set_node_status or log_important_event_to_db call
                   \* and its arguments (<<>>: none yet)

hist_vars == <<cfg0, boots, trace, fail, loaded_uuid, wfail, last_uuid, last_wfail,
               obtained, ok_uuids>>
vars == <<file, file_before, patched_uuid, loaded, step, given_name, returned_type,
          cfg, system, logs, pc,
          package_info, server_id, main_state, now, gen, cfg0, boots, trace, fail, loaded_uuid,
          wfail, last_uuid, last_wfail, obtained, ok_uuids, last_call>>

(***************************************************************************)
(* Characters and string primitives (Rust std, as used by main.rs)        *)
(***************************************************************************)
SP == " "
TAB == "\t"
CR == "\r"
LF == "\n"
QUOTE == "\""

FF == "\f"
VT == "U+000B"
NEL == "U+0085"
NBSP == "U+00A0"
OGHAM_SPACE == "U+1680"
LINE_SEP == "U+2028"
PARA_SEP == "U+2029"
NNBSP == "U+202F"
MMSP == "U+205F"
IDEOGRAPHIC_SPACE == "U+3000"
\* U+2000 .. U+200A
GeneralSpaces ==
    {"U+2000", "U+2001", "U+2002", "U+2003", "U+2004", "U+2005", "U+2006", "U+2007",
     "U+2008", "U+2009", "U+200A"}

\* char::is_whitespace: the Unicode White_Space property.
is_whitespace(c) ==
    \/ c \in {TAB, LF, VT, FF, CR, SP}
    \/ c \in {NEL, NBSP, OGHAM_SPACE, LINE_SEP, PARA_SEP, NNBSP, MMSP, IDEOGRAPHIC_SPACE}
    \/ c \in GeneralSpaces

\* Characters that are neither ASCII nor white space.
E_ACUTE == "U+00E9"
ZWSP == "U+200B"

\* The scalar value of a character named by its code point, "U+" and the
\* hexadecimal digits.
HexDigits == "0123456789ABCDEF"
hex_digit(d) == (CHOOSE i \in 1..16 : SubSeq(HexDigits, i, i) = d) - 1
RECURSIVE hex_value(_)
hex_value(h) ==
    IF Len(h) = 0 THEN 0
    ELSE 16 * hex_value(SubSeq(h, 1, Len(h) - 1)) + hex_digit(SubSeq(h, Len(h), Len(h)))
code_point(c) == hex_value(SubSeq(c, 3, Len(c)))

\* char::len_utf8: one byte below U+0080, two below U+0800, three below
\* U+10000, four from there on.  A character written as itself is ASCII.
len_utf8(c) ==
    IF Len(c) = 1 THEN 1
    ELSE LET code == code_point(c)
         IN  IF code < 128 THEN 1
             ELSE IF code < 2048 THEN 2
             ELSE IF code < 65536 THEN 3
             ELSE 4

\* str::len: the number of bytes.
RECURSIVE str_len(_)
str_len(s) == IF s = <<>> THEN 0 ELSE len_utf8(Head(s)) + str_len(Tail(s))

\* str::trim_start
RECURSIVE trim_start(_)
trim_start(s) ==
    IF s = <<>> THEN <<>>
    ELSE IF is_whitespace(Head(s)) THEN trim_start(Tail(s))
    ELSE s

\* str::trim_end
RECURSIVE trim_end(_)
trim_end(s) ==
    IF s = <<>> THEN <<>>
    ELSE IF is_whitespace(s[Len(s)]) THEN trim_end(SubSeq(s, 1, Len(s) - 1))
    ELSE s

\* str::trim
trim(s) == trim_end(trim_start(s))

\* str::starts_with
starts_with(s, prefix) ==
    /\ Len(s) >= Len(prefix)
    /\ SubSeq(s, 1, Len(prefix)) = prefix

\* str::ends_with
ends_with(s, suffix) ==
    /\ Len(s) >= Len(suffix)
    /\ SubSeq(s, Len(s) - Len(suffix) + 1, Len(s)) = suffix

\* Index of the first occurrence of character c in s, 0 when there is none.
find(s, c) ==
    IF \E i \in 1..Len(s) : s[i] = c
    THEN CHOOSE i \in 1..Len(s) : s[i] = c /\ \A j \in 1..(i - 1) : s[j] # c
    ELSE 0

\* str::lines: split at "\n"; a line that ended in "\n" loses it and then one
\* "\r" before it; a last line without "\n" is kept as it is; no line after a
\* final "\n".
strip_cr(l) ==
    IF Len(l) > 0 /\ l[Len(l)] = CR THEN SubSeq(l, 1, Len(l) - 1) ELSE l

RECURSIVE lines(_)
lines(s) ==
    IF s = <<>> THEN <<>>
    ELSE LET i == find(s, LF)
         IN  IF i = 0 THEN <<s>>
             ELSE <<strip_cr(SubSeq(s, 1, i - 1))>> \o lines(SubSeq(s, i + 1, Len(s)))

\* nth(0) in place of nth(1): the text before the first quote.
split_quote_nth0(line) ==
    LET i == find(line, QUOTE)
    IN  IF i = 0 THEN line ELSE SubSeq(line, 1, i - 1)

\* line.split('"').nth(1).unwrap_or(""): the text after the first quote up to
\* the second quote (or the end of the line); "" when the line has no quote.
split_quote_nth1(line) ==
    LET i == find(line, QUOTE)
    IN  IF i = 0 THEN <<>>
        ELSE LET rest == SubSeq(line, i + 1, Len(line))
                 j == find(rest, QUOTE)
             IN  IF j = 0 THEN rest ELSE SubSeq(rest, 1, j - 1)

\* " ".repeat(n)
RECURSIVE repeat_space(_)
repeat_space(n) == IF n <= 0 THEN <<>> ELSE <<SP>> \o repeat_space(n - 1)

(***************************************************************************)
(* The string literals of main.rs                                         *)
(***************************************************************************)
KEY_NAME == <<"n", "a", "m", "e", " ", "=">>
KEY_VERSION == <<"v", "e", "r", "s", "i", "o", "n", " ", "=">>
KEY_UUID == <<"u", "u", "i", "d", " ", "=">>
KEY_SERVER == <<"s", "e", "r", "v", "e", "r", " ", "=">>
SUFFIX_CORE == <<"c", "o", "r", "e">>
SUFFIX_CHILD == <<"c", "h", "i", "l", "d">>

(***************************************************************************)
(* read_package_info: the loop over the lines of the config artifact      *)
(***************************************************************************)
EmptyInfo == [name |-> <<>>, version |-> <<>>, uuid |-> <<>>, server |-> <<>>]

\* One iteration of the loop body, on the trimmed line.
scan_line(info, raw) ==
    LET line == trim(raw)
    IN  IF starts_with(line, KEY_NAME) THEN [info EXCEPT !.name = split_quote_nth1(line)]
        ELSE IF starts_with(line, KEY_VERSION) THEN [info EXCEPT !.version = split_quote_nth1(line)]
        ELSE IF starts_with(line, KEY_UUID) THEN [info EXCEPT !.uuid = split_quote_nth1(line)]
        ELSE IF starts_with(line, KEY_SERVER) THEN [info EXCEPT !.server = split_quote_nth1(line)]
        ELSE info

RECURSIVE scan_lines(_, _)
scan_lines(info, ls) ==
    IF ls = <<>> THEN info ELSE scan_lines(scan_line(info, Head(ls)), Tail(ls))

read_package_info(cargo_content) == scan_lines(EmptyInfo, lines(cargo_content))

(***************************************************************************)
(* patch_uuid_to_cargo: the content written back                          *)
(***************************************************************************)
is_uuid_line(line) == starts_with(trim(line), KEY_UUID)

\* Some line of the content is one the patch rewrites.
has_uuid_line(content) ==
    LET ls == lines(content) IN \E i \in 1..Len(ls) : is_uuid_line(ls[i])

\* A patch that forgets the quotes around the value.
patch_line_unquoted(line, new_uuid) ==
    IF is_uuid_line(line)
    THEN LET indent == str_len(line) - str_len(trim_start(line))
         IN  repeat_space(indent) \o <<"u", "u", "i", "d", " ", "=", " ">>
                 \o new_uuid \o <<LF>>
    ELSE line \o <<LF>>

patch_line(line, new_uuid) ==
    IF is_uuid_line(line)
    THEN LET indent == str_len(line) - str_len(trim_start(line))
         IN  repeat_space(indent) \o <<"u", "u", "i", "d", " ", "=", " ", QUOTE>>
                 \o new_uuid \o <<QUOTE, LF>>
    ELSE line \o <<LF>>

RECURSIVE patch_lines(_, _)
patch_lines(ls, new_uuid) ==
    IF ls = <<>> THEN <<>>
    ELSE patch_line(Head(ls), new_uuid) \o patch_lines(Tail(ls), new_uuid)

\* A patch that adds the uuid line when the artifact has none.
patch_uuid_to_cargo_appending(cargo_content, new_uuid) ==
    IF has_uuid_line(cargo_content)
    THEN patch_lines(lines(cargo_content), new_uuid)
    ELSE patch_lines(lines(cargo_content), new_uuid)
            \o KEY_UUID \o <<SP, QUOTE>> \o new_uuid \o <<QUOTE, LF>>

patch_uuid_to_cargo(cargo_content, new_uuid) == patch_lines(lines(cargo_content), new_uuid)

(***************************************************************************)
(* determine_node_type and NodeType::as_str                               *)
(***************************************************************************)
\* str::contains
contains(s, sub) ==
    \E i \in 1..(Len(s) - Len(sub) + 1) : SubSeq(s, i, i + Len(sub) - 1) = sub

\* A match anywhere in the name instead of at its end.
determine_node_type_contains(package_name) ==
    IF contains(package_name, SUFFIX_CORE) THEN "Parent"
    ELSE IF contains(package_name, SUFFIX_CHILD) THEN "Child"
    ELSE "Parent"

determine_node_type(package_name) ==
    IF ends_with(package_name, SUFFIX_CORE) THEN "Parent"
    ELSE IF ends_with(package_name, SUFFIX_CHILD) THEN "Child"
    ELSE "Parent"

as_str(node_type) == IF node_type = "Parent" THEN "parent" ELSE "child"

(***************************************************************************)
(* The store: tables system and logs                                       *)
(*   system(id INTEGER PRIMARY KEY, node_uuid TEXT UNIQUE, node TEXT,      *)
(*          server_name TEXT, main_state TEXT, status TEXT)                *)
(*   logs(id INTEGER PRIMARY KEY, server_id INTEGER, log_level TEXT,       *)
(*        message TEXT, content TEXT)                                      *)
(***************************************************************************)
\* Option<T>: <<>> is None, <<x>> is Some(x).
None == <<>>
Some(x) == <<x>>

\* The value of a column the INSERT does not name.
DEFAULT_STATUS == "NULL"

\* The rowid an INSERT assigns to an INTEGER PRIMARY KEY: one more than the
\* largest in the table.  No row is ever deleted, so rows are in rowid order.
next_rowid(rows) == IF rows = <<>> THEN 1 ELSE rows[Len(rows)].id + 1

rows_with_uuid(sys, uuid) == {i \in 1..Len(sys) : sys[i].node_uuid = uuid}

\* The UNIQUE constraint on system.node_uuid rejects the insert.
unique_violation(sys, uuid) == rows_with_uuid(sys, uuid) # {}

\* The SELECT without its WHERE clause: the first row of the table, whatever
\* its uuid.
query_existing_any_row(sys, uuid) ==
    IF sys = <<>> THEN None
    ELSE Some([id |-> sys[1].id, server_name |-> sys[1].server_name])

\* SELECT id, server_name FROM system WHERE node_uuid = ?1, query_row(..).optional():
\* the first matching row, or None.
query_existing(sys, uuid) ==
    LET hits == rows_with_uuid(sys, uuid)
    IN  IF hits = {} THEN None
        ELSE LET i == CHOOSE i \in hits : \A j \in hits : i <= j
             IN  Some([id |-> sys[i].id, server_name |-> sys[i].server_name])

\* A snapshot that records the name where the server belongs.
main_state_json_name_as_server(info, t) ==
    [version |-> info.version, server |-> info.name, started_at |-> t]

\* serde_json::json!({"version": .., "server": .., "started_at": ..})
main_state_json(info, t) ==
    [version |-> info.version, server |-> info.server, started_at |-> t]

\* A row that binds the name where the uuid belongs.
new_system_row_swapped(id, info, snapshot) ==
    [id |-> id,
     node_uuid |-> info.name,
     node |-> as_str(determine_node_type(info.name)),
     server_name |-> info.uuid,
     main_state |-> snapshot,
     status |-> DEFAULT_STATUS]

\* An INSERT that also names the status column.
new_system_row_running(id, info, snapshot) ==
    [id |-> id,
     node_uuid |-> info.uuid,
     node |-> as_str(determine_node_type(info.name)),
     server_name |-> info.name,
     main_state |-> snapshot,
     status |-> "running"]

\* INSERT INTO system (node_uuid, node, server_name, main_state) VALUES (?1, ?2, ?3, ?4)
new_system_row(id, info, snapshot) ==
    [id |-> id,
     node_uuid |-> info.uuid,
     node |-> as_str(determine_node_type(info.name)),
     server_name |-> info.name,
     main_state |-> snapshot,
     status |-> DEFAULT_STATUS]

insert_system(sys, info, snapshot) ==
    Append(sys, new_system_row(next_rowid(sys), info, snapshot))

\* An upsert: a uuid without a row gets one.
update_status_upsert(sys, uuid, status) ==
    IF rows_with_uuid(sys, uuid) = {}
    THEN Append(sys, [id |-> next_rowid(sys), node_uuid |-> uuid, node |-> "parent",
                      server_name |-> <<>>, main_state |-> "{}", status |-> status])
    ELSE [i \in 1..Len(sys) |->
             IF sys[i].node_uuid = uuid THEN [sys[i] EXCEPT !.status = status] ELSE sys[i]]

\* An UPDATE without its WHERE clause: every row gets the status.
update_status_all_rows(sys, uuid, status) ==
    [i \in 1..Len(sys) |-> [sys[i] EXCEPT !.status = status]]

\* UPDATE system SET status = ?1 WHERE node_uuid = ?2
update_status(sys, uuid, status) ==
    [i \in 1..Len(sys) |->
        IF sys[i].node_uuid = uuid THEN [sys[i] EXCEPT !.status = status] ELSE sys[i]]

\* A table that keeps the latest event only: the row written replaces the
\* rows there were.
insert_log_latest_only(lg, sid, log_level, message, content) ==
    <<[id |-> next_rowid(lg),
       server_id |-> sid,
       log_level |-> log_level,
       message |-> message,
       content |-> IF content = None THEN "{}" ELSE content[1]]>>

\* INSERT INTO logs (server_id, log_level, message, content) VALUES (?1, ?2, ?3, ?4)
\* (conn.execute(sql, params); the source carries a stray `66` before the SQL
\* string, which is read as absent).
insert_log(lg, sid, log_level, message, content) ==
    Append(lg, [id |-> next_rowid(lg),
                server_id |-> sid,
                log_level |-> log_level,
                message |-> message,
                content |-> IF content = None THEN "{}" ELSE content[1]])

Procs == {"p1", "p2"}

(***************************************************************************)
(* Pieces of main                                                          *)
(***************************************************************************)
\* package_info.uuid.is_empty()
uuid_always_empty(info) == TRUE

uuid_is_empty(info) == info.uuid = <<>>

\* uuid::Uuid::new_v4().to_string(): hyphenated lower-case hex, never a quote,
\* never a line ending; 122 random bits, modelled as never repeating.  The n-th
\* uuid produced, shortened to two characters.
DIGITS == <<"1", "2", "3", "4", "5", "6", "7", "8", "9">>
new_v4(n) == <<"g", DIGITS[n]>>

\* The leading bytes of a character whose other bytes were not written: what
\* ends a file cut inside a multi-byte character.  Not a character.
CUT == "<cut>"

\* The first k bytes of s: its whole characters, and CUT when byte k falls
\* inside a character.
RECURSIVE byte_prefix(_, _)
byte_prefix(s, k) ==
    IF k = 0 \/ s = <<>> THEN <<>>
    ELSE IF len_utf8(Head(s)) <= k
         THEN <<Head(s)>> \o byte_prefix(Tail(s), k - len_utf8(Head(s)))
         ELSE <<CUT>>

\* fs::read_to_string succeeds on the content only when it is valid UTF-8.
valid_utf8(content) == \A i \in 1..Len(content) : content[i] # CUT

\* What a failed patch_uuid_to_cargo can leave in the artifact: nothing changed
\* (read_to_string or the open inside fs::write failed), or a proper prefix of
\* the bytes of the new content (fs::write truncates, then write_all fails
\* part-way).
write_fail_outcomes(old, new) ==
    {old} \cup {byte_prefix(new, k) : k \in 0..(str_len(new) - 1)}

\* `if let Err(e) = patch_uuid_to_cargo(..) { error!(..) }`: the boot goes on.
after_patch_err == "identified"

\* `.expect("Failed to manage system node")` on an Err: the process panics.
after_register_err_continue == "registered"

after_register_err == "aborted"

(***************************************************************************)
(* Inputs of the parsing harness                                           *)
(***************************************************************************)
MaxLines == 2

L_NAME_A == KEY_NAME \o <<SP, QUOTE, "a", QUOTE>>
L_NAME_B == KEY_NAME \o <<SP, QUOTE, "b", QUOTE>>
L_VERSION == KEY_VERSION \o <<SP, QUOTE, "1", QUOTE>>
L_SERVER == KEY_SERVER \o <<SP, QUOTE, "s", QUOTE>>
L_UUID_EMPTY == KEY_UUID \o <<SP, QUOTE, QUOTE>>
L_UUID_K == KEY_UUID \o <<SP, QUOTE, "k", QUOTE>>
L_UUID_BARE == KEY_UUID
L_UUID_TAB == <<TAB>> \o L_UUID_EMPTY
L_UUID_SP2 == <<SP, SP>> \o L_UUID_EMPTY
L_UUID_FF == <<FF>> \o L_UUID_EMPTY
L_UUID_NBSP == <<NBSP>> \o L_UUID_K \o <<IDEOGRAPHIC_SPACE>>
L_NAME_VT == <<VT>> \o L_NAME_A \o <<NEL>>
\* U+200B is not white space: trimming leaves it, and the line has no key.
L_UUID_ZWSP == <<ZWSP>> \o KEY_UUID \o <<SP, QUOTE, E_ACUTE, QUOTE>>
L_COMMENT == <<"#">> \o L_UUID_K
L_OTHER == <<"x", " ", "=", " ", QUOTE, "y", QUOTE>>
L_BLANK == <<>>

LinePool ==
    {L_NAME_A, L_NAME_B, L_VERSION, L_SERVER, L_UUID_EMPTY, L_UUID_K, L_UUID_BARE,
     L_UUID_TAB, L_UUID_SP2, L_UUID_FF, L_UUID_NBSP, L_NAME_VT, L_UUID_ZWSP, L_COMMENT,
     L_OTHER, L_BLANK}

Terminators == {<<LF>>, <<CR, LF>>}

\* Contents of exactly n terminated lines.
RECURSIVE Terminated(_)
Terminated(n) ==
    IF n = 0 THEN {<<>>}
    ELSE {l \o t \o rest : l \in LinePool, t \in Terminators, rest \in Terminated(n - 1)}

\* Every content of at most MaxLines lines, the last one with or without its
\* line ending.
Contents ==
    UNION {Terminated(n) : n \in 0..MaxLines}
    \cup UNION {{c \o l : c \in Terminated(n - 1), l \in LinePool} : n \in 1..MaxLines}

GenPool == {new_v4(1), new_v4(2)}

(***************************************************************************)
(* SpecParse: read_package_info and patch_uuid_to_cargo as pure functions  *)
(***************************************************************************)
\* The nodes before any boot, with artifacts c.
NodesDown(c) ==
    /\ cfg = c
    /\ cfg0 = c
    /\ system = <<>>
    /\ logs = <<>>
    /\ pc = [p \in Procs |-> "down"]
    /\ package_info = [p \in Procs |-> EmptyInfo]
    /\ server_id = [p \in Procs |-> 0]
    /\ main_state = [p \in Procs |-> None]
    /\ now = 0
    /\ gen = 0
    /\ boots = [p \in Procs |-> 0]
    /\ trace = [p \in Procs |-> <<>>]
    /\ fail = [p \in Procs |-> "none"]
    /\ loaded_uuid = [p \in Procs |-> <<>>]
    /\ wfail = [p \in Procs |-> 0]
    /\ last_uuid = [p \in Procs |-> <<>>]
    /\ last_wfail = [p \in Procs |-> FALSE]
    /\ obtained = [p \in Procs |-> {}]
    /\ ok_uuids = {}
    /\ last_call = [op |-> "none"]

\* The classifier harness at rest.
ClassifierIdle ==
    /\ given_name = <<>>
    /\ returned_type = "none"

classify_vars == <<given_name, returned_type>>

\* The harness before any call.
HarnessIdle ==
    /\ file_before = <<>>
    /\ patched_uuid = <<>>
    /\ loaded = EmptyInfo
    /\ step = "init"
    /\ ClassifierIdle

node_vars == <<cfg, system, logs, pc, package_info, server_id, main_state, now, gen, cfg0, boots,
               trace, fail, loaded_uuid, wfail, last_uuid, last_wfail, obtained, ok_uuids,
               last_call>>

ParseInit ==
    /\ file \in Contents
    /\ HarnessIdle
    /\ NodesDown([p \in Procs |-> <<>>])

\* read_package_info on the artifact as it is.
ParseLoad ==
    /\ step = "init"
    /\ loaded' = read_package_info(file)
    /\ step' = "loaded"
    /\ UNCHANGED <<file, file_before, patched_uuid>>
    /\ UNCHANGED node_vars
    /\ UNCHANGED classify_vars

\* patch_uuid_to_cargo with a newly generated uuid.
ParsePatch ==
    /\ step = "init"
    /\ \E u \in GenPool :
        /\ patched_uuid' = u
        /\ file_before' = file
        /\ file' = patch_uuid_to_cargo(file, u)
    /\ step' = "patched"
    /\ UNCHANGED loaded
    /\ UNCHANGED node_vars
    /\ UNCHANGED classify_vars

\* read_package_info on the patched artifact.
ParseReload ==
    /\ step = "patched"
    /\ loaded' = read_package_info(file)
    /\ step' = "reloaded"
    /\ UNCHANGED <<file, file_before, patched_uuid>>
    /\ UNCHANGED node_vars
    /\ UNCHANGED classify_vars

ParseNext == ParseLoad \/ ParsePatch \/ ParseReload

SpecParse == ParseInit /\ [][ParseNext]_vars

(***************************************************************************)
(* SpecClassify: determine_node_type on one package name                   *)
(***************************************************************************)
MaxPrefixLen == 2

PrefixChars == {"x", "-"}
Prefixes == UNION {[1..k -> PrefixChars] : k \in 0..MaxPrefixLen}

\* The two suffixes, in other cases, cut short, joined, and absent.
Stems ==
    {<<>>, SUFFIX_CORE, SUFFIX_CHILD,
     <<"C", "o", "r", "e">>, <<"C", "h", "i", "l", "d">>, <<"C", "O", "R", "E">>,
     <<"c", "o", "r">>, <<"h", "i", "l", "d">>,
     SUFFIX_CORE \o SUFFIX_CHILD, SUFFIX_CHILD \o SUFFIX_CORE}

\* What may follow the stem.
Tails == {<<>>, <<"s">>, <<SP>>}

Names == {pre \o stem \o tail : pre \in Prefixes, stem \in Stems, tail \in Tails}

ClassifyInit ==
    /\ file = <<>>
    /\ file_before = <<>>
    /\ patched_uuid = <<>>
    /\ loaded = EmptyInfo
    /\ step = "init"
    /\ given_name \in Names
    /\ returned_type = "none"
    /\ NodesDown([p \in Procs |-> <<>>])

\* determine_node_type(&package_info.name)
Classify ==
    /\ returned_type = "none"
    /\ returned_type' = determine_node_type(given_name)
    /\ UNCHANGED <<file, file_before, patched_uuid, loaded, step, given_name>>
    /\ UNCHANGED node_vars

SpecClassify == ClassifyInit /\ [][Classify]_vars

(***************************************************************************)
(* Spec: the nodes booting against the shared store                        *)
(***************************************************************************)
\* Bounds on a behaviour: boots of all nodes together, failed writes of the
\* artifact, rows of logs.
MaxBoots == 3
MaxWriteFails == 1
MaxLogs == 2

L_NAME_CORE == KEY_NAME \o <<SP, QUOTE>> \o SUFFIX_CORE \o <<QUOTE>>
L_NAME_CHILD == KEY_NAME \o <<SP, QUOTE>> \o SUFFIX_CHILD \o <<QUOTE>>
L_NAME_E_ACUTE == KEY_NAME \o <<SP, QUOTE, E_ACUTE, QUOTE>>
L_VERSION_2 == KEY_VERSION \o <<SP, QUOTE, "2", QUOTE>>

\* A placeholder uuid line to patch.
CFG_PLACEHOLDER == L_NAME_CORE \o <<LF>> \o L_UUID_EMPTY \o <<LF>>
\* No uuid line at all.
CFG_NO_UUID == L_OTHER \o <<LF>>
\* A uuid assigned beforehand.
CFG_PRESET == L_UUID_K \o <<LF>> \o L_NAME_CORE \o <<LF>> \o L_VERSION \o <<LF>>
\* The same uuid under another name, version and server.
CFG_PRESET_OTHER ==
    L_UUID_K \o <<LF>> \o L_NAME_CHILD \o <<LF>> \o L_VERSION_2 \o <<LF>> \o L_SERVER \o <<LF>>
\* A tab-indented placeholder, CRLF line ends, a name of one two-byte
\* character, no final line end.
CFG_TAB_CRLF == L_UUID_TAB \o <<CR, LF>> \o L_NAME_E_ACUTE

CfgPool == {CFG_PLACEHOLDER, CFG_NO_UUID, CFG_PRESET, CFG_PRESET_OTHER, CFG_TAB_CRLF}

\* The node whose boots are followed with every artifact of CfgPool; the
\* other nodes are peers sharing the store, their uuid assigned beforehand.
Node == "p1"
PeerCfgPool == {CFG_PRESET_OTHER}

\* What the HTTP surface may pass to set_node_status and log_important_event_to_db.
UNKNOWN_UUID == <<"n", "o">>
Statuses == {"stopped", "running"}
\* The node followed sets "stopped", a peer "running".
StatusesOf(p) == IF p = Node THEN {"stopped"} ELSE {"running"}
Contents_Opt == {None, Some("c")}
\* The node followed logs without content, a peer with content.
ContentsOf(p) == IF p = Node THEN {None} ELSE {Some("c")}

Init ==
    /\ file = <<>>
    /\ HarnessIdle
    /\ \E c \in [Procs -> CfgPool] :
          /\ \A q \in Procs \ {Node} : c[q] \in PeerCfgPool
          /\ NodesDown(c)

harness_vars == <<file, file_before, patched_uuid, loaded, step, given_name, returned_type>>

\* Bookkeeping when a process of node p starts: a new boot, an empty trace, and
\* what the previous boot ran with if it got as far as reading the artifact.
RECURSIVE sum_over(_, _)
sum_over(f, S) ==
    IF S = {} THEN 0 ELSE LET x == CHOOSE x \in S : TRUE IN f[x] + sum_over(f, S \ {x})

StartBoot(p) ==
    /\ sum_over(boots, Procs) < MaxBoots
    /\ boots' = [boots EXCEPT ![p] = @ + 1]
    /\ now' = now + 1
    /\ server_id' = [server_id EXCEPT ![p] = 0]
    /\ IF \E i \in 1..Len(trace[p]) : trace[p][i] = "config"
       THEN /\ last_uuid' = [last_uuid EXCEPT ![p] = package_info[p].uuid]
            /\ last_wfail' = [last_wfail EXCEPT ![p] =
                                 \E i \in 1..Len(trace[p]) : trace[p][i] = "patch_err"]
       ELSE UNCHANGED <<last_uuid, last_wfail>>

\* The process ends at step `at`.
Abort(p, at, entry) ==
    /\ pc' = [pc EXCEPT ![p] = "aborted"]
    /\ fail' = [fail EXCEPT ![p] = at]
    /\ trace' = [trace EXCEPT ![p] = Append(@, entry)]

\* A step of the boot that succeeds.
Advance(p, to, entry) ==
    /\ pc' = [pc EXCEPT ![p] = to]
    /\ trace' = [trace EXCEPT ![p] = Append(@, entry)]
    /\ UNCHANGED fail

\* A process of node p starts (the previous one, if any, has ended) and
\* Connection::open succeeds.
Boot(p) ==
    /\ pc[p] \in {"down", "aborted", "serving"}
    /\ StartBoot(p)
    /\ package_info' = [package_info EXCEPT ![p] = EmptyInfo]
    /\ loaded_uuid' = [loaded_uuid EXCEPT ![p] = <<>>]
    /\ pc' = [pc EXCEPT ![p] = "opened"]
    /\ trace' = [trace EXCEPT ![p] = <<"open">>]
    /\ fail' = [fail EXCEPT ![p] = "none"]
    /\ UNCHANGED <<cfg, system, logs, gen, cfg0, wfail, obtained, ok_uuids>>
    /\ UNCHANGED <<harness_vars, last_call, main_state>>

\* Connection::open fails: .expect panics.
BootOpenFails(p) ==
    /\ pc[p] \in {"down", "aborted", "serving"}
    /\ StartBoot(p)
    /\ package_info' = [package_info EXCEPT ![p] = EmptyInfo]
    /\ loaded_uuid' = [loaded_uuid EXCEPT ![p] = <<>>]
    /\ pc' = [pc EXCEPT ![p] = "aborted"]
    /\ trace' = [trace EXCEPT ![p] = <<"open_err">>]
    /\ fail' = [fail EXCEPT ![p] = "open"]
    /\ UNCHANGED <<cfg, system, logs, gen, cfg0, wfail, obtained, ok_uuids>>
    /\ UNCHANGED <<harness_vars, last_call, main_state>>

\* init_database_from_schema succeeds; the schema file's statements are
\* idempotent and leave the rows alone.
SchemaOk(p) ==
    /\ pc[p] = "opened"
    /\ Advance(p, "schema", "schema")
    /\ UNCHANGED <<cfg, system, logs, package_info, server_id, now, gen, cfg0, boots,
                   loaded_uuid, wfail, last_uuid, last_wfail, obtained, ok_uuids>>
    /\ UNCHANGED <<harness_vars, last_call, main_state>>

\* The schema file is unreadable or execute_batch fails: .expect panics.
SchemaFails(p) ==
    /\ pc[p] = "opened"
    /\ Abort(p, "schema", "schema_err")
    /\ UNCHANGED <<cfg, system, logs, package_info, server_id, now, gen, cfg0, boots,
                   loaded_uuid, wfail, last_uuid, last_wfail, obtained, ok_uuids>>
    /\ UNCHANGED <<harness_vars, last_call, main_state>>

\* read_package_info on an artifact read_to_string accepts, then the test
\* `package_info.uuid.is_empty()`.
ReadConfig(p) ==
    /\ pc[p] = "schema"
    /\ valid_utf8(cfg[p])
    /\ LET info == read_package_info(cfg[p])
       IN  /\ package_info' = [package_info EXCEPT ![p] = info]
           /\ loaded_uuid' = [loaded_uuid EXCEPT ![p] = info.uuid]
           /\ Advance(p, IF uuid_is_empty(info) THEN "generating" ELSE "identified", "config")
    /\ UNCHANGED <<cfg, system, logs, server_id, now, gen, cfg0, boots, wfail,
                   last_uuid, last_wfail, obtained, ok_uuids>>
    /\ UNCHANGED <<harness_vars, last_call, main_state>>

\* The artifact is unreadable (missing, not permitted, or not valid UTF-8):
\* .expect panics.
ReadConfigFails(p) ==
    /\ pc[p] = "schema"
    /\ Abort(p, "config", "config_err")
    /\ UNCHANGED <<cfg, system, logs, package_info, server_id, now, gen, cfg0, boots,
                   loaded_uuid, wfail, last_uuid, last_wfail, obtained, ok_uuids>>
    /\ UNCHANGED <<harness_vars, last_call, main_state>>

\* package_info.uuid = Uuid::new_v4().to_string()
Generate(p) ==
    /\ pc[p] = "generating"
    /\ gen < Len(DIGITS)
    /\ gen' = gen + 1
    /\ package_info' = [package_info EXCEPT ![p].uuid = new_v4(gen + 1)]
    /\ Advance(p, "generated", "generate")
    /\ UNCHANGED <<cfg, system, logs, server_id, now, cfg0, boots, loaded_uuid, wfail,
                   last_uuid, last_wfail, obtained, ok_uuids>>
    /\ UNCHANGED <<harness_vars, last_call, main_state>>

\* patch_uuid_to_cargo returns Ok.
PatchOk(p) ==
    /\ pc[p] = "generated"
    /\ cfg' = [cfg EXCEPT ![p] = patch_uuid_to_cargo(@, package_info[p].uuid)]
    /\ Advance(p, "identified", "patch")
    /\ UNCHANGED <<system, logs, package_info, server_id, now, gen, cfg0, boots,
                   loaded_uuid, wfail, last_uuid, last_wfail, obtained, ok_uuids>>
    /\ UNCHANGED <<harness_vars, last_call, main_state>>

\* patch_uuid_to_cargo returns Err: logged, and the boot goes on.
PatchErr(p) ==
    /\ pc[p] = "generated"
    /\ sum_over(wfail, Procs) < MaxWriteFails
    /\ \E left \in write_fail_outcomes(cfg[p], patch_uuid_to_cargo(cfg[p], package_info[p].uuid)) :
          cfg' = [cfg EXCEPT ![p] = left]
    /\ wfail' = [wfail EXCEPT ![p] = @ + 1]
    /\ pc' = [pc EXCEPT ![p] = after_patch_err]
    /\ trace' = [trace EXCEPT ![p] = Append(@, "patch_err")]
    /\ fail' = [fail EXCEPT ![p] = IF after_patch_err = "aborted" THEN "patch" ELSE @]
    /\ UNCHANGED <<system, logs, package_info, server_id, now, gen, cfg0, boots,
                   loaded_uuid, last_uuid, last_wfail, obtained, ok_uuids>>
    /\ UNCHANGED <<harness_vars, last_call, main_state>>

\* manage_system_node returns Ok(id) to main.
ReturnOk(p, id, entry) ==
    /\ server_id' = [server_id EXCEPT ![p] = id]
    /\ obtained' = [obtained EXCEPT ![p] = @ \cup {<<package_info[p].uuid, id>>}]
    /\ ok_uuids' = ok_uuids \cup {package_info[p].uuid}
    /\ Advance(p, "registered", entry)

\* A registration that refreshes the stored row from the identity.
RegisterFoundUpdates(p) ==
    /\ pc[p] = "identified"
    /\ LET existing_node == query_existing(system, package_info[p].uuid)
       IN  /\ existing_node # None
           /\ ReturnOk(p, existing_node[1].id, "found")
    /\ system' = [i \in 1..Len(system) |->
                     IF system[i].node_uuid = package_info[p].uuid
                     THEN [system[i] EXCEPT !.server_name = package_info[p].name,
                                            !.main_state = main_state_json(package_info[p], now)]
                     ELSE system[i]]
    /\ UNCHANGED <<cfg, logs, package_info, now, gen, cfg0, boots, loaded_uuid, wfail,
                   last_uuid, last_wfail>>
    /\ UNCHANGED <<harness_vars, last_call, main_state>>

\* manage_system_node, the lookup finds a row: Some((node_id, existing_name)) => Ok(node_id).
RegisterFound(p) ==
    /\ pc[p] = "identified"
    /\ LET existing_node == query_existing(system, package_info[p].uuid)
       IN  /\ existing_node # None
           /\ ReturnOk(p, existing_node[1].id, "found")
    /\ UNCHANGED <<cfg, system, logs, package_info, now, gen, cfg0, boots, loaded_uuid,
                   wfail, last_uuid, last_wfail>>
    /\ UNCHANGED <<harness_vars, last_call, main_state>>

\* manage_system_node, the lookup finds nothing: the None arm is entered.
LookupMiss(p) ==
    /\ pc[p] = "identified"
    /\ query_existing(system, package_info[p].uuid) = None
    /\ Advance(p, "missed", "miss")
    /\ UNCHANGED <<cfg, system, logs, package_info, server_id, now, gen, cfg0, boots,
                   loaded_uuid, wfail, last_uuid, last_wfail, obtained, ok_uuids>>
    /\ UNCHANGED <<harness_vars, last_call, main_state>>

\* The None arm builds main_state, reading the clock, before it runs the INSERT.
BuildMainState(p) ==
    /\ pc[p] = "missed"
    /\ main_state' = [main_state EXCEPT ![p] = Some(main_state_json(package_info[p], now))]
    /\ Advance(p, "inserting", "snapshot")
    /\ UNCHANGED <<cfg, system, logs, package_info, server_id, now, gen, cfg0, boots,
                   loaded_uuid, wfail, last_uuid, last_wfail, obtained, ok_uuids>>
    /\ UNCHANGED <<harness_vars, last_call>>

\* The INSERT succeeds: Ok(conn.last_insert_rowid()).
InsertOk(p) ==
    /\ pc[p] = "inserting"
    /\ ~unique_violation(system, package_info[p].uuid)
    /\ system' = insert_system(system, package_info[p], main_state[p][1])
    /\ ReturnOk(p, next_rowid(system), "insert")
    /\ UNCHANGED <<cfg, logs, package_info, now, gen, cfg0, boots, loaded_uuid, wfail,
                   last_uuid, last_wfail>>
    /\ main_state' = [main_state EXCEPT ![p] = None]
    /\ UNCHANGED <<harness_vars, last_call>>

\* An INSERT OR IGNORE: the conflict is swallowed and the stale
\* last_insert_rowid of the connection (0) is returned as the id.
InsertConflictIgnored(p) ==
    /\ pc[p] = "inserting"
    /\ unique_violation(system, package_info[p].uuid)
    /\ ReturnOk(p, 0, "conflict")
    /\ UNCHANGED <<cfg, system, logs, package_info, now, gen, cfg0, boots, loaded_uuid,
                   wfail, last_uuid, last_wfail>>
    /\ main_state' = [main_state EXCEPT ![p] = None]
    /\ UNCHANGED <<harness_vars, last_call>>

\* The INSERT hits the uniqueness constraint: `?` returns the Err to main,
\* whose .expect panics.
InsertConflict(p) ==
    /\ pc[p] = "inserting"
    /\ unique_violation(system, package_info[p].uuid)
    /\ pc' = [pc EXCEPT ![p] = after_register_err]
    /\ fail' = [fail EXCEPT ![p] = "register"]
    /\ trace' = [trace EXCEPT ![p] = Append(@, "conflict")]
    /\ UNCHANGED <<cfg, system, logs, package_info, server_id, now, gen, cfg0, boots,
                   loaded_uuid, wfail, last_uuid, last_wfail, obtained, ok_uuids>>
    /\ main_state' = [main_state EXCEPT ![p] = None]
    /\ UNCHANGED <<harness_vars, last_call>>

\* The SELECT or the INSERT fails in the store (busy, I/O): Err, main panics.
RegisterStoreError(p) ==
    /\ pc[p] \in {"identified", "inserting"}
    /\ pc' = [pc EXCEPT ![p] = after_register_err]
    /\ fail' = [fail EXCEPT ![p] = "register"]
    /\ trace' = [trace EXCEPT ![p] = Append(@, "store_err")]
    /\ UNCHANGED <<cfg, system, logs, package_info, server_id, now, gen, cfg0, boots,
                   loaded_uuid, wfail, last_uuid, last_wfail, obtained, ok_uuids>>
    /\ main_state' = [main_state EXCEPT ![p] = None]
    /\ UNCHANGED <<harness_vars, last_call>>

\* The router is built, the listener bound, axum::serve runs.
StartHttp(p) ==
    /\ pc[p] = "registered"
    /\ Advance(p, "serving", "http")
    /\ UNCHANGED <<cfg, system, logs, package_info, server_id, now, gen, cfg0, boots,
                   loaded_uuid, wfail, last_uuid, last_wfail, obtained, ok_uuids>>
    /\ UNCHANGED <<harness_vars, last_call, main_state>>

\* TcpListener::bind fails: .expect panics.
BindFails(p) ==
    /\ pc[p] = "registered"
    /\ Abort(p, "bind", "bind_err")
    /\ UNCHANGED <<cfg, system, logs, package_info, server_id, now, gen, cfg0, boots,
                   loaded_uuid, wfail, last_uuid, last_wfail, obtained, ok_uuids>>
    /\ UNCHANGED <<harness_vars, last_call, main_state>>

\* `conn.execute(..)?; Ok(())`: the Err of the statement is returned, and any
\* Ok(count) becomes Ok(()).
unit_result(executed) == IF executed THEN "Ok" ELSE "Err"

\* set_node_status, the UPDATE fails in the store (busy, I/O): `?` returns the
\* Err and nothing is written.
SetStatusStoreError(p) ==
    /\ pc[p] = "serving"
    /\ \E node_uuid \in {package_info[p].uuid, UNKNOWN_UUID}, status \in StatusesOf(p) :
          last_call' = [op |-> "set_node_status", node_uuid |-> node_uuid,
                        status |-> status, affected |-> 0, executed |-> FALSE,
                        ret |-> unit_result(FALSE)]
    /\ UNCHANGED <<cfg, system, logs, pc, package_info, server_id, now, gen>>
    /\ UNCHANGED hist_vars
    /\ UNCHANGED <<harness_vars, main_state>>

\* log_important_event_to_db, the INSERT fails in the store: `?` returns the
\* Err and no row is added.
LogEventStoreError(p) ==
    /\ pc[p] = "serving"
    /\ \E content \in ContentsOf(p) :
          last_call' = [op |-> "log_important_event_to_db", server_id |-> server_id[p],
                        log_level |-> "info", message |-> "m", content |-> content,
                        executed |-> FALSE, ret |-> unit_result(FALSE)]
    /\ UNCHANGED <<cfg, system, logs, pc, package_info, server_id, now, gen>>
    /\ UNCHANGED hist_vars
    /\ UNCHANGED <<harness_vars, main_state>>

\* set_node_status, called by the running process: the UPDATE executes.
SetStatus(p) ==
    /\ pc[p] = "serving"
    /\ \E node_uuid \in {package_info[p].uuid, UNKNOWN_UUID}, status \in StatusesOf(p) :
          /\ system' = update_status(system, node_uuid, status)
          /\ last_call' = [op |-> "set_node_status", node_uuid |-> node_uuid,
                           status |-> status,
                           affected |-> Cardinality(rows_with_uuid(system, node_uuid)),
                           executed |-> TRUE, ret |-> unit_result(TRUE)]
    /\ UNCHANGED <<cfg, logs, pc, package_info, server_id, now, gen>>
    /\ UNCHANGED hist_vars
    /\ UNCHANGED <<harness_vars, main_state>>

\* log_important_event_to_db, called by the running process: the INSERT executes.
LogEvent(p) ==
    /\ pc[p] = "serving"
    /\ Len(logs) < MaxLogs
    /\ \E content \in ContentsOf(p) :
          /\ logs' = insert_log(logs, server_id[p], "info", "m", content)
          /\ last_call' = [op |-> "log_important_event_to_db", server_id |-> server_id[p],
                           log_level |-> "info", message |-> "m", content |-> content,
                           executed |-> TRUE, ret |-> unit_result(TRUE)]
    /\ UNCHANGED <<cfg, system, pc, package_info, server_id, now, gen>>
    /\ UNCHANGED hist_vars
    /\ UNCHANGED <<harness_vars, main_state>>

\* The boot sequences of the nodes.
NextBoot ==
    \E p \in Procs :
        \/ Boot(p)
        \/ BootOpenFails(p)
        \/ SchemaOk(p)
        \/ SchemaFails(p)
        \/ ReadConfig(p)
        \/ ReadConfigFails(p)
        \/ Generate(p)
        \/ PatchOk(p)
        \/ PatchErr(p)
        \/ RegisterFound(p)
        \/ LookupMiss(p)
        \/ BuildMainState(p)
        \/ InsertOk(p)
        \/ InsertConflict(p)
        \/ RegisterStoreError(p)
        \/ StartHttp(p)
        \/ BindFails(p)

SpecBoot == Init /\ [][NextBoot]_vars

\* The boot sequences, and the running processes calling the secondary
\* operations of the registry.
Next ==
    \/ NextBoot
    \/ \E p \in Procs : SetStatus(p)
    \/ \E p \in Procs : SetStatusStoreError(p)
    \/ \E p \in Procs : LogEvent(p)
    \/ \E p \in Procs : LogEventStoreError(p)

Spec == Init /\ [][Next]_vars

(***************************************************************************)
(* SpecRestart: the boots of one node, with every artifact of CfgPool and  *)
(* writes that succeed, and its running process calling the secondary      *)
(* operations of the registry; the peers stay down                         *)
(***************************************************************************)
NextRestart ==
    \E p \in {Node} :
        \/ Boot(p)
        \/ BootOpenFails(p)
        \/ SchemaOk(p)
        \/ SchemaFails(p)
        \/ ReadConfig(p)
        \/ ReadConfigFails(p)
        \/ Generate(p)
        \/ PatchOk(p)
        \/ RegisterFound(p)
        \/ LookupMiss(p)
        \/ BuildMainState(p)
        \/ InsertOk(p)
        \/ RegisterStoreError(p)
        \/ StartHttp(p)
        \/ BindFails(p)
        \/ SetStatus(p)
        \/ SetStatusStoreError(p)
        \/ LogEvent(p)
        \/ LogEventStoreError(p)

SpecRestart == Init /\ [][NextRestart]_vars

(***************************************************************************)
(* SpecRegistry: the operations of the registry called by processes that   *)
(* share the store, each with an identity of its own                       *)
(***************************************************************************)
UUID_K == <<"k">>
UUID_J == <<"j">>

Identity(name, version, uuid, server) ==
    [name |-> name, version |-> version, uuid |-> uuid, server |-> server]

\* Two identities with the uuid of the first and another name, version and
\* server; one with a uuid of its own.
IdentityPool ==
    {Identity(SUFFIX_CORE, <<"1">>, UUID_K, <<"s">>),
     Identity(SUFFIX_CHILD, <<"2">>, UUID_K, <<"t">>),
     Identity(<<"x">>, <<"1">>, UUID_J, <<"s">>)}

\* The node followed takes the first and the third identity over its boots; the
\* peer sharing the store takes the second, so that both claim the uuid of the
\* first.
IdentitiesOf(p) ==
    IF p = Node
    THEN {info \in IdentityPool : info.name # SUFFIX_CHILD}
    ELSE {info \in IdentityPool : info.name = SUFFIX_CHILD}

RegistryInit ==
    /\ file = <<>>
    /\ HarnessIdle
    /\ NodesDown([p \in Procs |-> <<>>])

\* A process starts and reaches the call of manage_system_node with an
\* identity (the previous process of p, if any, has ended).
Enter(p) ==
    /\ pc[p] \in {"down", "aborted", "serving"}
    /\ StartBoot(p)
    /\ \E info \in IdentitiesOf(p) :
          /\ package_info' = [package_info EXCEPT ![p] = info]
          /\ loaded_uuid' = [loaded_uuid EXCEPT ![p] = info.uuid]
    /\ pc' = [pc EXCEPT ![p] = "identified"]
    /\ trace' = [trace EXCEPT ![p] = <<"open", "schema", "config">>]
    /\ fail' = [fail EXCEPT ![p] = "none"]
    /\ UNCHANGED <<cfg, system, logs, gen, cfg0, wfail, obtained, ok_uuids>>
    /\ UNCHANGED <<harness_vars, last_call, main_state>>

NextRegistry ==
    \E p \in Procs :
        \/ Enter(p)
        \/ RegisterFound(p)
        \/ LookupMiss(p)
        \/ BuildMainState(p)
        \/ InsertOk(p)
        \/ InsertConflict(p)
        \/ RegisterStoreError(p)
        \/ StartHttp(p)
        \/ SetStatus(p)
        \/ SetStatusStoreError(p)
        \/ LogEvent(p)
        \/ LogEventStoreError(p)

SpecRegistry == RegistryInit /\ [][NextRegistry]_vars

(***************************************************************************)
(* Properties of the registry                                              *)
(***************************************************************************)
last(t) == IF t = <<>> THEN "" ELSE t[Len(t)]
in_trace(p, entry) == \E i \in 1..Len(trace[p]) : trace[p][i] = entry
row_of(sys, uuid) == sys[CHOOSE i \in rows_with_uuid(sys, uuid) : TRUE]

\* C1: a register call for a uuid that already has a row returns that row's id
\* and leaves table system exactly as it was (no new row, no field of any row
\* changed), whatever name, version and server the identity carries; the only
\* other outcome is an error of the store, which writes nothing either.
C1_ReRegisterReturnsExistingUntouched ==
    [][\A p \in Procs :
          (/\ pc[p] = "identified"
           /\ pc'[p] # "identified"
           /\ rows_with_uuid(system, package_info[p].uuid) # {})
          => /\ system' = system
             /\ \/ /\ pc'[p] = "registered"
                   /\ server_id'[p] = row_of(system, package_info[p].uuid).id
                \/ /\ pc'[p] = "aborted"
                   /\ fail'[p] = "register"]_vars

\* A process has re-registered a uuid whose row carries another name, version
\* and server than its identity, and got the row's id.
C1_Witness ==
    \E p \in Procs :
        /\ pc[p] = "registered"
        /\ last(trace[p]) = "found"
        /\ rows_with_uuid(system, package_info[p].uuid) # {}
        /\ LET row == row_of(system, package_info[p].uuid)
           IN  /\ server_id[p] = row.id
               /\ row.server_name # package_info[p].name
               /\ row.main_state.version # package_info[p].version
               /\ row.main_state.server # package_info[p].server

\* C2: in every reachable state table system holds at most one row per
\* node_uuid, and exactly one for every uuid for which a register call has
\* returned Ok.
C2_OneRowPerUuid ==
    /\ \A i, j \in 1..Len(system) : system[i].node_uuid = system[j].node_uuid => i = j
    /\ \A u \in ok_uuids : Cardinality(rows_with_uuid(system, u)) = 1

\* Two uuids are registered, a status has been set, an event logged, and a
\* process has lost a race.
C2_Witness ==
    /\ Cardinality(ok_uuids) = 2
    /\ Len(system) = 2
    /\ logs # <<>>
    /\ \E i \in 1..Len(system) : system[i].status = "stopped"
    /\ \E p \in Procs : last(trace[p]) = "conflict"

\* C3: a process that saw "not found" and then inserts: if a row for its uuid
\* has appeared meanwhile (another process won the race), its register returns
\* an error and the table is left as it is; otherwise its insert adds exactly
\* one row for the uuid (or the store fails and nothing is written).  So the
\* uuid never has more than one row, and the loser never gets a success.
C3_RaceLoserGetsError ==
    /\ [][\A p \in Procs :
            (pc[p] = "inserting" /\ pc'[p] # "inserting")
            => IF rows_with_uuid(system, package_info[p].uuid) # {}
               THEN /\ pc'[p] = "aborted"
                    /\ fail'[p] = "register"
                    /\ system' = system
               ELSE \/ /\ pc'[p] = "registered"
                       /\ Len(system') = Len(system) + 1
                       /\ Cardinality(rows_with_uuid(system', package_info[p].uuid)) = 1
                    \/ /\ pc'[p] = "aborted"
                       /\ fail'[p] = "register"
                       /\ system' = system]_vars
    /\ [](\A p \in Procs :
            last(trace[p]) = "conflict"
            => /\ pc[p] = "aborted"
               /\ Cardinality(rows_with_uuid(system, package_info[p].uuid)) = 1)

\* Two first-time processes with the same uuid both saw "not found"; one
\* inserted the row, the other got the constraint violation.
C3_Witness ==
    \E p, q \in Procs :
        /\ p # q
        /\ package_info[p].uuid = package_info[q].uuid
        /\ Len(system) = 1
        /\ system[1].node_uuid = package_info[p].uuid
        /\ in_trace(p, "miss") /\ last(trace[p]) = "conflict"
        /\ pc[p] = "aborted" /\ fail[p] = "register"
        /\ in_trace(q, "miss") /\ in_trace(q, "insert")
        /\ server_id[q] = system[1].id

(***************************************************************************)
(* Properties of the boot sequence                                         *)
(***************************************************************************)
\* The uuid a boot of p would load from the artifact as it is now.
held(p) == read_package_info(cfg[p]).uuid

count_in(t, entry) == Cardinality({i \in 1..Len(t) : t[i] = entry})
index_in(t, entry) == IF \E i \in 1..Len(t) : t[i] = entry
                      THEN CHOOSE i \in 1..Len(t) : t[i] = entry
                      ELSE 0

\* The boot of p has settled the uuid it runs with: it stands at the call of
\* manage_system_node or beyond.
has_identity(p) ==
    \/ pc[p] \in {"identified", "missed", "inserting", "registered", "serving"}
    \/ pc[p] = "aborted" /\ fail[p] \in {"register", "bind"}

is_generated(uuid) == \E n \in 1..gen : uuid = new_v4(n)

\* C4: for a node whose artifact held a `uuid =` line before its first boot and
\* whose writes of the artifact never failed, every boot runs with the same
\* uuid, every successful register returns the same id, and table system
\* holds exactly one row for the node after every boot.
C4_StableIdentityAcrossBoots ==
    \A p \in Procs :
        \/ /\ Cardinality(obtained[p]) <= 1
           /\ \A pair \in obtained[p] :
                 /\ Cardinality(rows_with_uuid(system, pair[1])) = 1
                 /\ row_of(system, pair[1]).id = pair[2]
           /\ (has_identity(p) /\ last_uuid[p] # <<>>) => package_info[p].uuid = last_uuid[p]
           /\ pc[p] \in {"registered", "serving"}
                 => /\ obtained[p] = {<<package_info[p].uuid, server_id[p]>>}
                    /\ Cardinality(rows_with_uuid(system, package_info[p].uuid)) = 1
        \/ wfail[p] > 0
        \/ ~has_uuid_line(cfg0[p])

\* The node started from an empty placeholder, generated its uuid in the first
\* boot, and is up after its third boot with the same uuid and id.
C4_Witness ==
    /\ boots[Node] = 3
    /\ has_uuid_line(cfg0[Node])
    /\ read_package_info(cfg0[Node]).uuid = <<>>
    /\ wfail[Node] = 0
    /\ pc[Node] = "serving"
    /\ is_generated(package_info[Node].uuid)
    /\ package_info[Node].uuid = last_uuid[Node]
    /\ ~in_trace(Node, "generate")
    /\ Cardinality(obtained[Node]) = 1

\* C6: while the artifact holds a non-empty uuid no step writes the artifact or
\* generates a uuid, and a boot that reads the artifact loads exactly that
\* uuid; a boot that has settled its uuid ran one generation and one persist
\* attempt if it loaded no uuid, and none if it loaded one.
C6_UuidImmutable ==
    /\ [][\A p \in Procs :
            \/ /\ cfg'[p] = cfg[p]
               /\ (boots'[p] = boots[p] /\ trace'[p] # trace[p])
                    => last(trace'[p]) \notin {"generate", "patch", "patch_err"}
               /\ (in_trace(p, "config")' /\ ~in_trace(p, "config"))
                    => /\ loaded_uuid'[p] = held(p)
                       /\ package_info'[p].uuid = held(p)
            \/ held(p) = <<>>]_vars
    /\ [](\A p \in Procs :
            has_identity(p)
            => IF loaded_uuid[p] # <<>>
               THEN /\ package_info[p].uuid = loaded_uuid[p]
                    /\ count_in(trace[p], "generate") = 0
                    /\ count_in(trace[p], "patch") + count_in(trace[p], "patch_err") = 0
               ELSE /\ package_info[p].uuid # <<>>
                    /\ count_in(trace[p], "generate") = 1
                    /\ count_in(trace[p], "patch") + count_in(trace[p], "patch_err") = 1)

\* The second boot of the node loads the uuid its first boot generated and
\* persisted, and generates nothing.
C6_Witness ==
    /\ boots[Node] = 2
    /\ read_package_info(cfg0[Node]).uuid = <<>>
    /\ has_identity(Node)
    /\ loaded_uuid[Node] # <<>>
    /\ loaded_uuid[Node] = last_uuid[Node]
    /\ is_generated(loaded_uuid[Node])
    /\ ~in_trace(Node, "generate")
    /\ cfg[Node] # cfg0[Node]

\* C9: the HTTP surface is started only after store open, schema
\* initialization, config read and register have succeeded, in that order, in
\* the same boot; a boot in which a step failed has aborted without starting
\* the HTTP surface; no step is run twice in a boot; an aborted process takes
\* no further step.
C9_FailFastBoot ==
    /\ [](\A p \in Procs :
            LET t == trace[p]
                registered_at == IF index_in(t, "found") # 0 THEN index_in(t, "found")
                                 ELSE index_in(t, "insert")
            IN  /\ in_trace(p, "http")
                     => /\ 0 < index_in(t, "open")
                        /\ index_in(t, "open") < index_in(t, "schema")
                        /\ index_in(t, "schema") < index_in(t, "config")
                        /\ index_in(t, "config") < registered_at
                        /\ registered_at < index_in(t, "http")
                        /\ fail[p] = "none"
                /\ fail[p] # "none" => (pc[p] = "aborted" /\ ~in_trace(p, "http"))
                /\ pc[p] = "aborted" => fail[p] # "none"
                /\ pc[p] = "serving" <=> last(t) = "http"
                /\ \A i, j \in 1..Len(t) : t[i] = t[j] => i = j)
    /\ [][\A p \in Procs :
            pc[p] = "aborted"
            => \/ pc'[p] = "aborted" /\ trace'[p] = trace[p] /\ boots'[p] = boots[p]
               \/ boots'[p] = boots[p] + 1]_vars

\* One process serves after all four steps; another has aborted on the
\* uniqueness constraint, and one on a failed schema initialization.
C9_Witness ==
    \E p, q \in Procs :
        /\ pc[p] = "serving"
        /\ trace[p] = <<"open", "schema", "config", "miss", "snapshot", "insert", "http">>
        /\ pc[q] = "aborted"
        /\ fail[q] = "register"
        /\ last(trace[q]) = "conflict"

\* C10: a failed write of the generated uuid does not abort the boot, which
\* goes on to register with the uuid held in memory; the artifact is left
\* readable and still without a uuid to load, and the next boot of the node
\* that settles a uuid generates one, different from the one before.
C10_PatchFailureContinues ==
    /\ \A p \in Procs :
          in_trace(p, "patch_err")
          => /\ has_identity(p)
             /\ fail[p] # "patch"
             /\ loaded_uuid[p] = <<>>
             /\ is_generated(package_info[p].uuid)
             /\ pc[p] \in {"registered", "serving"}
                   => /\ server_id[p] \in 1..Len(system)
                      /\ system[server_id[p]].node_uuid = package_info[p].uuid
             /\ valid_utf8(cfg[p])
             /\ held(p) = <<>>
    /\ \A p \in Procs :
          (last_wfail[p] /\ has_identity(p))
          => /\ in_trace(p, "generate")
             /\ package_info[p].uuid # last_uuid[p]

(***************************************************************************)
(* Properties of the parsing harness                                       *)
(***************************************************************************)
\* The value of the first line of content whose trimmed text starts with key,
\* "" when no line does.
first_match(content, key) ==
    LET ls == lines(content)
        hits == {i \in 1..Len(ls) : starts_with(trim(ls[i]), key)}
    IN  IF hits = {} THEN <<>>
        ELSE split_quote_nth1(trim(ls[CHOOSE i \in hits : \A j \in hits : i <= j]))

\* The leading whitespace of a line.
indentation(line) == SubSeq(line, 1, Len(line) - Len(trim_start(line)))

\* C5 (as claimed): for every content and every generated uuid u, patching u
\* into the artifact and re-loading the identity yields uuid = u.
C5_RoundTrip ==
    step = "reloaded" => loaded.uuid = patched_uuid

\* C5 (amended): the round trip yields u for every content that holds at least
\* one `uuid =` line; for a content without one the patch inserts none and the
\* re-load yields the empty uuid.
C5_RoundTripWhenUuidLine ==
    step = "reloaded"
    => IF has_uuid_line(file_before)
       THEN loaded.uuid = patched_uuid
       ELSE /\ ~has_uuid_line(file)
            /\ loaded.uuid = <<>>

\* A content whose uuid was empty has been patched and re-loaded.
C5_Witness ==
    /\ step = "reloaded"
    /\ has_uuid_line(file_before)
    /\ read_package_info(file_before).uuid = <<>>
    /\ loaded.uuid = patched_uuid
    /\ patched_uuid # <<>>

\* C7: read_package_info returns, for each of name, version, uuid and server,
\* the value of the first line matching that key, and "" for a key no line
\* matches.
C7_FirstMatchWins ==
    step = "loaded" =>
        /\ loaded.name = first_match(file, KEY_NAME)
        /\ loaded.version = first_match(file, KEY_VERSION)
        /\ loaded.uuid = first_match(file, KEY_UUID)
        /\ loaded.server = first_match(file, KEY_SERVER)

\* C8: patch_uuid_to_cargo replaces only the `uuid =` lines: a rewritten line
\* keeps the indentation of the line it replaces, every other line is kept
\* verbatim and in order, and a content without a `uuid =` line is unchanged.
C8_PatchOnlyUuidLine ==
    step = "patched" =>
        LET old == lines(file_before)
            new == lines(file)
        IN  /\ Len(new) = Len(old)
            /\ \A i \in 1..Len(old) :
                  IF is_uuid_line(old[i])
                  THEN new[i] = indentation(old[i])
                                  \o <<"u", "u", "i", "d", " ", "=", " ", QUOTE>>
                                  \o patched_uuid \o <<QUOTE>>
                  ELSE new[i] = old[i]
            /\ (~has_uuid_line(file_before) => file = file_before)

(***************************************************************************)
(* Properties of the registry operations                                   *)
(***************************************************************************)
\* The step appended `entry` to the trace of p's boot.
did(p, entry) == trace'[p] = Append(trace[p], entry)

ids_of(rows) == {rows[i].id : i \in 1..Len(rows)}

\* C11: a register call for an identity whose uuid has no row adds exactly one
\* row to system, with node_uuid the identity's uuid, node the role label of
\* its name, server_name its name and main_state the snapshot the call built
\* before the INSERT: its version, its server and a time the clock showed during
\* the call, which other processes' inserts may since have passed; every earlier
\* row stays as it was; the call returns the id the store gave the new row,
\* which is 1 on an empty store; and a register call inserts only after its
\* lookup found no row for the uuid.
C11_RegisterInsertsOneRow ==
    [][\A p \in Procs :
          /\ did(p, "insert")
                => LET info == package_info[p]
                       row == system'[Len(system')]
                   IN  /\ rows_with_uuid(system, info.uuid) = {}
                       /\ Len(system') = Len(system) + 1
                       /\ SubSeq(system', 1, Len(system)) = system
                       /\ row.node_uuid = info.uuid
                       /\ row.node = IF ends_with(info.name, SUFFIX_CHILD)
                                        /\ ~ends_with(info.name, SUFFIX_CORE)
                                     THEN "child" ELSE "parent"
                       /\ row.server_name = info.name
                       /\ row.main_state.version = info.version
                       /\ row.main_state.server = info.server
                       /\ row.main_state = main_state[p][1]
                       /\ row.main_state.started_at \in 1..now
                       /\ row.id \notin ids_of(system)
                       /\ server_id'[p] = row.id
                       /\ pc'[p] = "registered"
                       /\ system = <<>> => server_id'[p] = 1
                       /\ logs' = logs
          /\ did(p, "miss") => rows_with_uuid(system, package_info[p].uuid) = {}
          /\ did(p, "found") => system' = system]_vars

\* The peer registered second, on a store that held the row of the node: it
\* got id 2 and a child row, next to the parent row of the node; it had read
\* the clock before the node did, so its row carries the earlier timestamp.
C11_Witness ==
    /\ \E q \in Procs \ {Node} :
          /\ pc[q] = "registered"
          /\ last(trace[q]) = "insert"
          /\ server_id[q] = 2
          /\ system[2].node_uuid = package_info[q].uuid
          /\ system[2].node = "child"
          /\ system[2].server_name = SUFFIX_CHILD
          /\ system[2].main_state.server = package_info[q].server
    /\ Len(system) = 2
    /\ system[1].id = 1
    /\ system[1].node = "parent"
    /\ system[2].main_state.started_at < system[1].main_state.started_at

\* The step is a call of set_node_status: no boot moved, no logs row came,
\* and the call on record is a set_node_status.
set_status_step ==
    /\ trace' = trace
    /\ Len(logs') = Len(logs)
    /\ last_call'.op = "set_node_status"

\* C12: a set_node_status call with a uuid that has no row in system leaves
\* every row of system and of logs as it was, and returns Ok whenever its
\* UPDATE executed: a uuid without a row is never what makes it return Err.
C12_SetStatusUnknownUuid ==
    [][(set_status_step /\ rows_with_uuid(system, last_call'.node_uuid) = {})
          => /\ last_call'.executed => (last_call'.ret = "Ok" /\ last_call'.affected = 0)
             /\ last_call'.ret = "Err" => ~last_call'.executed
             /\ system' = system
             /\ logs' = logs]_vars

\* set_node_status was called with a uuid no row has, on a store that holds
\* rows: it returned Ok.
C12_Witness ==
    /\ last_call.op = "set_node_status"
    /\ last_call.node_uuid = UNKNOWN_UUID
    /\ last_call.executed
    /\ last_call.ret = "Ok"
    /\ Len(system) = 2
    /\ rows_with_uuid(system, UNKNOWN_UUID) = {}
    /\ \A i \in 1..Len(system) : system[i].status = DEFAULT_STATUS

\* C13: a set_node_status(uuid, s) call whose UPDATE executes returns Ok and
\* sets status to s on the row of that uuid, one that fails in the store
\* returns Err and sets nothing, and either changes nothing else: the other
\* columns of that row, every other row and the logs stay as they were; and no
\* step of any operation changes the id, node_uuid, node, server_name or
\* main_state of a row that exists.
C13_SetStatusFrame ==
    /\ [][set_status_step
            => /\ Len(system') = Len(system)
               /\ \A i \in 1..Len(system) :
                     system'[i].status =
                        IF last_call'.ret = "Ok" /\ system[i].node_uuid = last_call'.node_uuid
                        THEN last_call'.status
                        ELSE system[i].status
               /\ logs' = logs]_vars
    /\ [][/\ Len(system') >= Len(system)
          /\ \A i \in 1..Len(system) :
                /\ system'[i].id = system[i].id
                /\ system'[i].node_uuid = system[i].node_uuid
                /\ system'[i].node = system[i].node
                /\ system'[i].server_name = system[i].server_name
                /\ system'[i].main_state = system[i].main_state]_vars

\* Two rows; the last call set the status of the second, the first has the
\* status an earlier call gave it.
C13_Witness ==
    /\ last_call.op = "set_node_status"
    /\ last_call.ret = "Ok"
    /\ Len(system) = 2
    /\ system[2].node_uuid = last_call.node_uuid
    /\ last_call.status = "stopped"
    /\ system[2].status = "stopped"
    /\ system[1].status = "running"
    /\ system[1].main_state.started_at < system[2].main_state.started_at

\* C14: a log_important_event_to_db call that returns Ok adds exactly one row
\* to logs, with the server_id, log_level and message given and the content
\* given, or "{}" when none is given, and changes no row of system; one that
\* returns Err adds none; no step of any operation changes or removes a row of
\* logs.
C14_LogsAppendOnly ==
    /\ [][(/\ trace' = trace
           /\ last_call'.op = "log_important_event_to_db"
           /\ Len(logs') = Len(logs))
            => (last_call' # last_call => last_call'.ret = "Err")]_vars
    /\ [][Len(logs') # Len(logs)
            => /\ last_call'.op = "log_important_event_to_db"
               /\ last_call'.ret = "Ok"
               /\ Len(logs') = Len(logs) + 1
               /\ LET row == logs'[Len(logs')]
                  IN  /\ row.server_id = last_call'.server_id
                      /\ row.log_level = last_call'.log_level
                      /\ row.message = last_call'.message
                      /\ row.content = IF last_call'.content = None
                                       THEN "{}" ELSE last_call'.content[1]
                      /\ row.id \notin ids_of(logs)
               /\ system' = system]_vars
    /\ [][/\ Len(logs') >= Len(logs)
          /\ SubSeq(logs', 1, Len(logs)) = logs]_vars

\* Two log rows, the second written on a table that held the first: the one
\* written without content holds "{}", the other the content given; a status
\* change and a boot came after them.
C14_Witness ==
    /\ Len(logs) = 2
    /\ logs[1].id # logs[2].id
    /\ \E i, j \in 1..2 :
          /\ logs[i].content = "{}"
          /\ logs[j].content = "c"
    /\ \A i \in 1..2 :
          /\ logs[i].log_level = "info"
          /\ logs[i].message = "m"
          /\ logs[i].server_id \in ids_of(system)
    /\ last_call.op = "set_node_status"
    /\ \E p \in Procs : boots[p] >= 2 /\ pc[p] = "registered"

(***************************************************************************)
(* Properties of determine_node_type                                       *)
(***************************************************************************)
\* The last n characters of s (all of s when it is shorter).
last_chars(s, n) == IF Len(s) <= n THEN s ELSE SubSeq(s, Len(s) - n + 1, Len(s))

\* C15: determine_node_type returns a NodeType for every name, never an error:
\* Parent when the last four characters are exactly c,o,r,e, Child when the
\* last five are exactly c,h,i,l,d, Parent for every other name; the letters
\* are compared as they are, without folding case.
C15_ClassifyTotal ==
    returned_type # "none"
    => /\ returned_type \in {"Parent", "Child"}
       /\ last_chars(given_name, 4) = <<"c", "o", "r", "e">> => returned_type = "Parent"
       /\ last_chars(given_name, 5) = <<"c", "h", "i", "l", "d">> => returned_type = "Child"
       /\ (/\ last_chars(given_name, 4) # <<"c", "o", "r", "e">>
           /\ last_chars(given_name, 5) # <<"c", "h", "i", "l", "d">>)
             => returned_type = "Parent"

\* A name that ends with the child suffix after the core suffix was classified
\* Child.
C15_Witness ==
    /\ returned_type = "Child"
    /\ given_name = <<"x", "-">> \o SUFFIX_CORE \o SUFFIX_CHILD

(***************************************************************************)
(* Properties of the boots of a node whose artifact has no uuid line       *)
(***************************************************************************)
\* The <<uuid, id>> pairs of ps differ pairwise in uuid and in id.
pairwise_distinct(ps) ==
    \A a \in ps : \A b \in ps : a # b => (a[1] # b[1] /\ a[2] # b[2])

\* C16: for a node whose artifact has no `uuid =` line, a patch that reports
\* success leaves the artifact without one, every boot that settles its uuid
\* has generated it, every boot that registers does so by inserting a row and
\* gets a uuid and an id no earlier boot of the node got, and each uuid the
\* node registered with has its own row: after n boots that registered the
\* table holds n rows of the node.
C16_NoUuidLineNewRowPerBoot ==
    /\ [](\A p \in Procs :
            \/ /\ has_identity(p)
                     => /\ loaded_uuid[p] = <<>>
                        /\ in_trace(p, "generate")
                        /\ is_generated(package_info[p].uuid)
               /\ pairwise_distinct(obtained[p])
               /\ \A pair \in obtained[p] :
                     /\ Cardinality(rows_with_uuid(system, pair[1])) = 1
                     /\ row_of(system, pair[1]).id = pair[2]
            \/ has_uuid_line(cfg0[p]))
    /\ [][\A p \in Procs :
            \/ /\ cfg'[p] # cfg[p] => ~has_uuid_line(cfg'[p])
               /\ (pc[p] # "registered" /\ pc'[p] = "registered")
                     => /\ did(p, "insert")
                        /\ Len(system') = Len(system) + 1
                        /\ Cardinality(obtained'[p]) = Cardinality(obtained[p]) + 1
            \/ has_uuid_line(cfg0[p])]_vars

\* The node, its artifact without a uuid line, registered in each of three
\* boots, the patch reporting success each time: it has three rows.
C16_Witness ==
    /\ ~has_uuid_line(cfg0[Node])
    /\ wfail[Node] = 0
    /\ boots[Node] = 3
    /\ pc[Node] = "registered"
    /\ in_trace(Node, "patch")
    /\ Cardinality(obtained[Node]) = 3
    /\ Len(system) = 3
    /\ cfg[Node] = cfg0[Node]

(***************************************************************************)
(* Properties of the ids register returns                                  *)
(***************************************************************************)
all_obtained == UNION {obtained[p] : p \in Procs}

\* C17: of all the <<uuid, id>> pairs that successful register calls returned,
\* to any process at any time, two with the same uuid have the same id and
\* two with different uuids have different ids.
C17_IdsStableInjective ==
    \A a \in all_obtained : \A b \in all_obtained : (a[1] = b[1]) <=> (a[2] = b[2])

\* The node registered under two uuids, the peer under the first of them, with
\* a status change and a log row in between: the shared uuid gave both the
\* same id, the other uuid another id.
C17_Witness ==
    /\ \E q \in Procs \ {Node} : obtained[q] = {<<UUID_K, 1>>}
    /\ obtained[Node] = {<<UUID_K, 1>>, <<UUID_J, 2>>}
    /\ Len(logs) = 1
    /\ \E i \in 1..Len(system) : system[i].status # DEFAULT_STATUS

(***************************************************************************)
(* Properties of the boot sequence towards status and logs                 *)
(***************************************************************************)
\* The step is a step of some boot.
boot_step == trace' # trace

\* C18: no step of a boot, failed or not, changes the logs table or the status
\* of a row that exists, and a row a boot inserts has the default status of
\* the store; so when a boot has found the row of its node and is about to
\* start the HTTP surface, a status that the last set_node_status call gave
\* that row is still the row's status.
C18_BootKeepsStatusAndLogs ==
    /\ [][boot_step
            => /\ logs' = logs
               /\ Len(system') >= Len(system)
               /\ \A i \in 1..Len(system) : system'[i].status = system[i].status
               /\ \A i \in (Len(system) + 1)..Len(system') :
                     system'[i].status = DEFAULT_STATUS]_vars
    /\ [](\A p \in Procs :
            (/\ pc[p] = "registered"
             /\ in_trace(p, "found")
             /\ last_call.op = "set_node_status"
             /\ last_call.node_uuid = package_info[p].uuid
             /\ last_call.affected >= 1)
            => /\ Cardinality(rows_with_uuid(system, package_info[p].uuid)) = 1
               /\ row_of(system, package_info[p].uuid).status = last_call.status)

\* The node was set to stopped, logged an event and restarted: its second
\* boot read the artifact, found the row and is about to start the HTTP
\* surface, the row still stopped and the log row still there.
C18_Witness ==
    /\ boots[Node] = 2
    /\ pc[Node] = "registered"
    /\ trace[Node] = <<"open", "schema", "config", "found">>
    /\ last_call.op = "set_node_status"
    /\ last_call.node_uuid = package_info[Node].uuid
    /\ last_call.status = "stopped"
    /\ last_call.affected = 1
    /\ row_of(system, package_info[Node].uuid).status = "stopped"
    /\ Len(logs) = 1

====
